---------------------------- MODULE Spec2Model ----------------------------
(***************************************************************************)
(* A model of table_fu/formatting.py: the Formatter registry (register,     *)
(* unregister, __call__, __init__, DEFAULT_FORMATTERS) and the numeric      *)
(* transforms (_saferound, dollar_signs, dollars, intcomma, percent_change, *)
(* ratio).                                                                  *)
(*                                                                          *)
(* Python values are modelled as follows.                                   *)
(*   - None is the string "None"; a name is a string ("" is the empty       *)
(*     name); a function object is one of the strings of Funcs, which are   *)
(*     distinct from every name.                                            *)
(*   - a dict is a TLA+ function whose DOMAIN is the set of its keys.       *)
(*   - a Python str handled by a transform is a sequence of one-character   *)
(*     strings; an int is an integer, a float an integer count of 1/Scale.  *)
(***************************************************************************)
EXTENDS Integers, Sequences, FiniteSets, TLC

VARIABLES
    filters,    \* filters[i]: the dict self._filters of Formatter instance i
    live,       \* the instances constructed so far
    last,       \* the last registry call: its arguments and its outcome
    lastReg,    \* history: per instance and name, the function last registered
    tf,         \* the last transform call: its arguments and its outcome
    ic          \* the running intcomma call: its frame and its result

regVars == <<filters, live, last, lastReg>>
vars == <<filters, live, last, lastReg, tf, ic>>

-----------------------------------------------------------------------------
(* Python values of the registry                                            *)

None == "None"

\* The twelve functions of the transform library, as function objects.
LibFuncs ==
    { "<fn ap_state>", "<fn bubble>", "<fn checkbox>", "<fn dollar_signs>",
      "<fn dollars>", "<fn link>", "<fn intcomma>", "<fn percentage>",
      "<fn percent_change>", "<fn ratio>", "<fn title>", "<fn tribubble>" }

\* Functions a caller defines: one named double, and one that is also named
\* ratio although it is not the library's ratio.
UserFuncs == { "<user fn double>", "<user fn ratio>" }

Funcs == LibFuncs \cup UserFuncs

\* DEFAULT_FORMATTERS: canonical name -> library function.
DEFAULT_FORMATTERS ==
    [ ap_state |-> "<fn ap_state>", bubble |-> "<fn bubble>",
      checkbox |-> "<fn checkbox>", dollar_signs |-> "<fn dollar_signs>",
      dollars |-> "<fn dollars>", link |-> "<fn link>",
      intcomma |-> "<fn intcomma>", percentage |-> "<fn percentage>",
      percent_change |-> "<fn percent_change>", ratio |-> "<fn ratio>",
      title |-> "<fn title>", tribubble |-> "<fn tribubble>" ]

\* func.__name__: the name a function was declared with.
DeclName(f) ==
    CASE f = "<user fn double>" -> "double"
      [] f = "<user fn ratio>" -> "ratio"
      [] OTHER -> CHOOSE n \in DOMAIN DEFAULT_FORMATTERS : DEFAULT_FORMATTERS[n] = f

\* callable(x)
Callable(x) == x \in Funcs

\* bool(x): None and the empty string are falsy, functions and non-empty
\* strings are truthy.
Truthy(x) == x # None /\ x # ""

\* d[k] = v on a dict
Put(d, k, v) == [x \in (DOMAIN d) \cup {k} |-> IF x = k THEN v ELSE d[x]]

\* del d[k]
Del(d, k) == [x \in (DOMAIN d) \ {k} |-> d[x]]

EmptyDict == [x \in {} |-> None]


-----------------------------------------------------------------------------
(* The registry's operations on one dict                                    *)

\* Formatter.register with the branch for a bare invocable left out: the
\* invocable itself becomes the key and None the value.
RegisterNoBare(d, name, func) ==
    IF ~Truthy(func) /\ ~Truthy(name) THEN d
    ELSE IF Truthy(func) /\ ~Truthy(name) THEN Put(d, DeclName(func), func)
    ELSE Put(d, name, func)

\* Formatter.register(name, func): the dict afterwards.
register(d, name, func) ==
    IF ~Truthy(func) /\ ~Truthy(name) THEN d
    ELSE IF Callable(name) /\ ~Truthy(func) THEN Put(d, DeclName(name), name)
    ELSE IF Truthy(func) /\ ~Truthy(name) THEN Put(d, DeclName(func), func)
    ELSE Put(d, name, func)

\* Formatter.unregister(name, func): the dict afterwards.
unregister(d, name, func) ==
    IF ~Truthy(func) /\ ~Truthy(name) THEN d
    ELSE LET n == IF ~Truthy(name) THEN DeclName(func) ELSE name
         IN  IF n \notin DOMAIN d THEN d ELSE Del(d, n)

\* The loop of Formatter.__init__ over DEFAULT_FORMATTERS.items().
RECURSIVE RegisterAll(_, _)
RegisterAll(d, names) ==
    IF names = {} THEN d
    ELSE LET n == CHOOSE x \in names : TRUE
         IN  RegisterAll(register(d, n, DEFAULT_FORMATTERS[n]), names \ {n})

\* A constructor that shares the module-level instance's dict instead of
\* filling a fresh one.
InitFiltersShared == filters[0]

\* Formatter.__init__: the dict of a new instance.
InitFilters == RegisterAll(EmptyDict, DOMAIN DEFAULT_FORMATTERS)

\* What a call ends with: the value fn(value, *args, **kwargs) returns, kept
\* as the application itself, or the exception raised.
Returned(fn, value, args, kw) ==
    [kind |-> "returned", fn |-> fn, value |-> value, args |-> args, kw |-> kw]

Raised(exc) ==
    [kind |-> exc, fn |-> None, value |-> 0, args |-> <<>>, kw |-> EmptyDict]

\* Formatter.__call__ resolving an invocable through the registry by its
\* declared name instead of calling it directly.
InvokeByDeclName(d, value, func, args, kw) ==
    LET key == IF Callable(func) THEN DeclName(func) ELSE func
    IN  IF key \notin DOMAIN d THEN Raised("KeyError")
        ELSE IF Callable(d[key]) THEN Returned(d[key], value, args, kw)
        ELSE Raised("TypeError")

\* Formatter.__call__(value, func, *args, **kwargs): its outcome.
InvokeOutcome(d, value, func, args, kw) ==
    IF Callable(func) THEN Returned(func, value, args, kw)
    ELSE IF func \notin DOMAIN d THEN Raised("KeyError")
    ELSE IF Callable(d[func]) THEN Returned(d[func], value, args, kw)
    ELSE Raised("TypeError")

-----------------------------------------------------------------------------
(* The history of registrations, kept from the calls alone: a call that     *)
(* names a name and a function registers that function; a call with an      *)
(* invocable alone registers it under its declared name; a call that names  *)
(* a name (or gives an invocable as func) unregisters it.  Calls that carry *)
(* no function, or no name, register nothing.                               *)

NoCall == [op |-> "none", inst |-> 0, name |-> None, func |-> None,
           value |-> 0, args |-> <<>>, kw |-> EmptyDict, out |-> Raised("none")]

HistNames == (DOMAIN DEFAULT_FORMATTERS) \cup {"double"}

HistRegister(h, name, func) ==
    IF Callable(func) /\ name \in HistNames THEN [h EXCEPT ![name] = func]
    ELSE IF Callable(func) /\ ~Truthy(name) THEN [h EXCEPT ![DeclName(func)] = func]
    ELSE IF Callable(name) /\ ~Truthy(func) THEN [h EXCEPT ![DeclName(name)] = name]
    ELSE h

HistUnregister(h, name, func) ==
    IF name \in HistNames THEN [h EXCEPT ![name] = None]
    ELSE IF Callable(func) /\ ~Truthy(name) THEN [h EXCEPT ![DeclName(func)] = None]
    ELSE h

HistInit == [n \in HistNames |->
               IF n \in DOMAIN DEFAULT_FORMATTERS THEN DEFAULT_FORMATTERS[n] ELSE None]


-----------------------------------------------------------------------------
(* Python values of the transforms                                          *)

\* A float is counted in units of 1/Scale (FracDigits decimal digits); an int
\* is kept as it is.
FracDigits == 3
Scale == 10 ^ FracDigits

IntV(k) == [t |-> "int", n |-> k, s |-> <<>>]
FloatV(m) == [t |-> "float", n |-> m, s |-> <<>>]
StrV(cs) == [t |-> "str", n |-> 0, s |-> cs]
NoneV == [t |-> "none", n |-> 0, s |-> <<>>]

\* not value
Falsy(v) ==
    \/ v.t = "none"
    \/ v.t \in {"int", "float"} /\ v.n = 0
    \/ v.t = "str" /\ v.s = <<>>

DigitChars == <<"0", "1", "2", "3", "4", "5", "6", "7", "8", "9">>
DigitChar(d) == DigitChars[d + 1]
IsDigit(c) == \E d \in 0 .. 9 : DigitChars[d + 1] = c
DigitVal(c) == CHOOSE d \in 0 .. 9 : DigitChars[d + 1] = c
AllDigits(cs) == \A i \in 1 .. Len(cs) : IsDigit(cs[i])

Abs(x) == IF x < 0 THEN -x ELSE x

\* str(k) of an int k >= 0
RECURSIVE NatStr(_)
NatStr(k) ==
    IF k < 10 THEN <<DigitChar(k)>>
    ELSE Append(NatStr(k \div 10), DigitChar(k % 10))

\* the int written by a sequence of digits (0 for none)
RECURSIVE NatOf(_)
NatOf(cs) ==
    IF cs = <<>> THEN 0
    ELSE 10 * NatOf(SubSeq(cs, 1, Len(cs) - 1)) + DigitVal(cs[Len(cs)])

\* k digits of m, zero-padded on the left
RECURSIVE Padded(_, _)
Padded(m, k) ==
    IF k = 0 THEN <<>>
    ELSE Append(Padded(m \div 10, k - 1), DigitChar(m % 10))

\* cs without its trailing "0"s, keeping one character
RECURSIVE StripZeros(_)
StripZeros(cs) ==
    IF Len(cs) > 1 /\ cs[Len(cs)] = "0" THEN StripZeros(SubSeq(cs, 1, Len(cs) - 1))
    ELSE cs

Sign(cs) == IF cs # <<>> /\ cs[1] \in {"-", "+"} THEN <<cs[1]>> ELSE <<>>

\* float(s) of a str of digits, signs, points and letters that are no part
\* of a float literal: [sign] digits [. [digits]] or [sign] . digits.
ParseFloat(cs) ==
    LET body == SubSeq(cs, Len(Sign(cs)) + 1, Len(cs))
        dots == {i \in 1 .. Len(body) : body[i] = "."}
        dot == IF dots = {} THEN Len(body) + 1
               ELSE CHOOSE i \in dots : \A j \in dots : i <= j
        ip == SubSeq(body, 1, dot - 1)
        fp == SubSeq(body, dot + 1, Len(body))
        fd == [i \in 1 .. FracDigits |-> IF i <= Len(fp) THEN fp[i] ELSE "0"]
        mag == NatOf(ip) * Scale + NatOf(fd)
    IN  IF AllDigits(ip) /\ AllDigits(fp) /\ Len(ip) + Len(fp) >= 1
        THEN [kind |-> "ok", f |-> IF Sign(cs) = <<"-">> THEN -mag ELSE mag]
        ELSE [kind |-> "ValueError", f |-> 0]

\* float(value)
PyFloat(v) ==
    CASE v.t = "int" -> [kind |-> "ok", f |-> v.n * Scale]
      [] v.t = "float" -> [kind |-> "ok", f |-> v.n]
      [] v.t = "str" -> ParseFloat(v.s)
      [] OTHER -> [kind |-> "TypeError", f |-> 0]

\* int(value): a float is truncated towards zero, a str must be
\* [sign] digits.
PyInt(v) ==
    CASE v.t = "int" -> [kind |-> "ok", k |-> v.n]
      [] v.t = "float" ->
            [kind |-> "ok", k |-> IF v.n < 0 THEN -(Abs(v.n) \div Scale)
                                  ELSE v.n \div Scale]
      [] v.t = "str" ->
            LET body == SubSeq(v.s, Len(Sign(v.s)) + 1, Len(v.s))
            IN  IF AllDigits(body) /\ Len(body) >= 1
                THEN [kind |-> "ok", k |-> IF Sign(v.s) = <<"-">> THEN -NatOf(body)
                                           ELSE NatOf(body)]
                ELSE [kind |-> "ValueError", k |-> 0]
      [] OTHER -> [kind |-> "TypeError", k |-> 0]

\* str(value)
PyStr(v) ==
    CASE v.t = "str" -> v.s
      [] v.t = "int" -> (IF v.n < 0 THEN <<"-">> ELSE <<>>) \o NatStr(Abs(v.n))
      [] v.t = "float" ->
            (IF v.n < 0 THEN <<"-">> ELSE <<>>) \o NatStr(Abs(v.n) \div Scale)
                \o <<".">> \o StripZeros(Padded(Abs(v.n) % Scale, FracDigits))
      [] OTHER -> <<"N", "o", "n", "e">>

\* What a transform ends with: the str it returns, or the exception raised.
Ret(cs) == [kind |-> "returned", s |-> cs]
Exc(e) == [kind |-> e, s |-> <<>>]

NA == <<"N", "/", "A">>

\* '%.<places>f' % f.  The digit after the last one kept decides the
\* rounding; when f lies exactly half-way in decimal, the binary double
\* nearest to it lies on either side, so either neighbour is printed (tieUp).
FormatFixed(f, places, tieUp) ==
    LET a == Abs(f)
        unit == IF places < FracDigits THEN 10 ^ (FracDigits - places) ELSE 1
        q0 == IF places < FracDigits THEN a \div unit
              ELSE a * 10 ^ (places - FracDigits)
        r == IF places < FracDigits THEN a % unit ELSE 0
        q == IF 2 * r > unit \/ (2 * r = unit /\ tieUp) THEN q0 + 1 ELSE q0
    IN  (IF f < 0 THEN <<"-">> ELSE <<>>)
            \o NatStr(q \div 10 ^ places)
            \o (IF places > 0 THEN <<".">> \o Padded(q % 10 ^ places, places)
                ELSE <<>>)

\* _saferound(value, decimal_places)
_saferound(v, places, tieUp) ==
    LET x == PyFloat(v)
    IN  CASE x.kind = "ValueError" -> Ret(<<>>)
          [] x.kind = "TypeError" -> Exc("TypeError")
          [] OTHER -> Ret(FormatFixed(x.f, places, tieUp))

\* The regular expression of intcomma with a lazy \d+?: the first group
\* takes one digit.
IntcommaSubLazy(orig) ==
    LET start == IF orig # <<>> /\ orig[1] = "-" THEN 1 ELSE 0
        run == Cardinality({k \in 1 .. Len(orig) - start :
                   \A j \in 1 .. k : IsDigit(orig[start + j])})
    IN  IF run >= 4
        THEN SubSeq(orig, 1, start + 1) \o <<",">>
                 \o SubSeq(orig, start + 2, Len(orig))
        ELSE orig

\* re.sub("^(-?\d+)(\d{3})", '\g<1>,\g<2>', orig): at the start of orig, an
\* optional "-" and the longest run of digits; when the run has four digits
\* or more a comma goes before its last three.
IntcommaSub(orig) ==
    LET start == IF orig # <<>> /\ orig[1] = "-" THEN 1 ELSE 0
        run == Cardinality({k \in 1 .. Len(orig) - start :
                   \A j \in 1 .. k : IsDigit(orig[start + j])})
    IN  IF run >= 4
        THEN SubSeq(orig, 1, start + run - 3) \o <<",">>
                 \o SubSeq(orig, start + run - 2, Len(orig))
        ELSE orig

\* intcomma on a str: substitute until nothing changes.
RECURSIVE IntcommaStr(_)
IntcommaStr(orig) ==
    LET new == IntcommaSub(orig)
    IN  IF orig = new THEN new ELSE IntcommaStr(new)

\* intcomma(value)
intcomma(v) == IntcommaStr(PyStr(v))

\* dollar_signs(value)
dollar_signs(v) ==
    LET c == PyInt(v)
    IN  CASE c.kind = "ValueError" -> Ret(NA)
          [] c.kind = "TypeError" -> Exc("TypeError")
          [] OTHER -> Ret([i \in 1 .. c.k |-> "$"])

\* dollars without the replacement of a falsy value by 0.
DollarsNoDefault(v, places, tieUp) ==
    LET r == _saferound(v, places, tieUp)
    IN  IF r.kind # "returned" THEN r
        ELSE IF r.s = <<>> THEN Ret(NA)
        ELSE Ret(<<"$">> \o IntcommaStr(r.s))

\* dollars(value, decimal_places)
dollars(v, places, tieUp) ==
    LET v0 == IF Falsy(v) THEN IntV(0) ELSE v
        r == _saferound(v0, places, tieUp)
    IN  IF r.kind # "returned" THEN r
        ELSE IF r.s = <<>> THEN Ret(NA)
        ELSE Ret(<<"$">> \o IntcommaStr(r.s))

\* whether a fixed-point str writes a number above zero
WritesPositive(cs) == cs[1] # "-" /\ \E i \in 1 .. Len(cs) : cs[i] \in {"1", "2", "3", "4", "5", "6", "7", "8", "9"}

\* percent_change taking the sign from the rounded digits.
PercentChangeRounded(v, places, multiply, tieUp) ==
    LET x == PyFloat(v)
        f == IF multiply THEN x.f * 100 ELSE x.f
        r == _saferound(FloatV(f), places, tieUp)
    IN  CASE x.kind = "ValueError" -> Ret(NA)
          [] x.kind = "TypeError" -> Exc("TypeError")
          [] OTHER -> IF WritesPositive(r.s) THEN Ret(<<"+">> \o r.s \o <<"%">>)
                      ELSE Ret(r.s \o <<"%">>)

\* percent_change(value, decimal_places, multiply)
percent_change(v, places, multiply, tieUp) ==
    LET x == PyFloat(v)
        f == IF multiply THEN x.f * 100 ELSE x.f
        r == _saferound(FloatV(f), places, tieUp)
    IN  CASE x.kind = "ValueError" -> Ret(NA)
          [] x.kind = "TypeError" -> Exc("TypeError")
          [] OTHER -> IF f > 0 THEN Ret(<<"+">> \o r.s \o <<"%">>)
                      ELSE Ret(r.s \o <<"%">>)

\* ratio(value, precision): the return statement reads decimal_places, a
\* name bound nowhere, so every value float() accepts ends in NameError.
ratio(v, precision) ==
    LET x == PyFloat(v)
    IN  CASE x.kind = "ValueError" -> Ret(NA)
          [] x.kind = "TypeError" -> Exc("TypeError")
          [] OTHER -> Exc("NameError")

-----------------------------------------------------------------------------
(* Bounds and the arguments the calls are tried with                        *)

\* Instances besides the module-level one (instance 0, `format`).
MaxInst == 1

Insts == 0 .. MaxInst

\* name arguments: omitted, empty, two names, and invocables given as name.
NameArgs == {None, "", "double", "ratio"} \cup UserFuncs

\* func arguments: omitted, or a function.
FuncArgs == {None} \cup UserFuncs

\* second arguments of __call__: names (present, absent, empty) and invocables.
CallArgs == {"", "double", "ratio", "title"} \cup UserFuncs \cup {"<fn ratio>"}

Values == {21}
ExtraArgs == {<<>>, <<7>>}
KwArgs == {EmptyDict, [precision |-> 1]}

\* The smaller argument sets used when several instances are alive.
FewNameArgs == {None, "ratio"}
FewFuncArgs == {None, "<user fn ratio>"}
FewCallArgs == {"ratio", "<user fn ratio>"}

\* Digits and places of the numbers tried.
MaxDigits == 7
MaxPlaces == 2

Places == 0 .. MaxPlaces

\* m thousandths as a float
Milli(m) == FloatV(m * (Scale \div 1000))

\* Values the transforms are tried with: None, ints, floats (zero, tiny,
\* half-way, negative, large) and strs (empty, numeric-looking, not numeric).
TfValues ==
    { NoneV, IntV(0), IntV(3), IntV(1200), IntV(-2),
      Milli(0), Milli(1), Milli(-1), Milli(5), Milli(100), Milli(-100),
      Milli(125), Milli(2500), Milli(1234500),
      StrV(<<>>), StrV(<<"x">>), StrV(<<"3">>), StrV(<<"1", ".", "5">>),
      StrV(<<"-", "2">>), StrV(<<"1", "2", "a">>), StrV(<<".">>) }

\* Ints intcomma is tried with: every int of at most MaxDigits digits
\* written with the digits 0, 1 and 9.
IcInputs == {NatOf(ds) : ds \in [1 .. MaxDigits -> {"0", "1", "9"}]}

NoTf == [fn |-> "none"]
NoIc == [pc |-> "none"]

-----------------------------------------------------------------------------
(* The registry as a state machine                                          *)

InitReg ==
    /\ live = {0}
    /\ filters = [i \in Insts |->
                    IF i = 0 THEN RegisterAll(EmptyDict, DOMAIN DEFAULT_FORMATTERS)
                    ELSE EmptyDict]
    /\ last = NoCall
    /\ lastReg = [i \in Insts |-> HistInit]

Init ==
    /\ InitReg
    /\ tf = NoTf
    /\ ic = NoIc

\* Formatter(): a new instance i.
Construct(i) ==
    /\ i \notin live
    /\ live' = live \cup {i}
    /\ filters' = [filters EXCEPT ![i] = InitFilters]
    /\ last' = [NoCall EXCEPT !.op = "construct", !.inst = i]
    /\ lastReg' = [lastReg EXCEPT ![i] = HistInit]
    /\ UNCHANGED <<tf, ic>>

\* instance i .register(name, func)
Register(i, name, func) ==
    /\ i \in live
    /\ filters' = [filters EXCEPT ![i] = register(@, name, func)]
    /\ last' = [NoCall EXCEPT !.op = "register", !.inst = i,
                              !.name = name, !.func = func]
    /\ lastReg' = [lastReg EXCEPT ![i] = HistRegister(@, name, func)]
    /\ UNCHANGED <<live, tf, ic>>

\* instance i .unregister(name, func)
Unregister(i, name, func) ==
    /\ i \in live
    /\ filters' = [filters EXCEPT ![i] = unregister(@, name, func)]
    /\ last' = [NoCall EXCEPT !.op = "unregister", !.inst = i,
                              !.name = name, !.func = func]
    /\ lastReg' = [lastReg EXCEPT ![i] = HistUnregister(@, name, func)]
    /\ UNCHANGED <<live, tf, ic>>

\* instance i (value, func, *args, **kw)
Invoke(i, value, func, args, kw) ==
    /\ i \in live
    /\ last' = [NoCall EXCEPT !.op = "invoke", !.inst = i, !.func = func,
                              !.value = value, !.args = args, !.kw = kw,
                              !.out = InvokeOutcome(filters[i], value, func, args, kw)]
    /\ UNCHANGED <<filters, live, lastReg, tf, ic>>

\* One caller and the module-level instance, every form of call.
Next ==
    \/ \E name \in NameArgs, func \in FuncArgs : Register(0, name, func)
    \/ \E name \in NameArgs, func \in FuncArgs : Unregister(0, name, func)
    \/ \E value \in Values, func \in CallArgs, args \in ExtraArgs, kw \in KwArgs :
            Invoke(0, value, func, args, kw)

Spec == Init /\ [][Next]_vars

\* Several instances, constructed at any time.
NextInst ==
    \/ \E i \in Insts : Construct(i)
    \/ \E i \in Insts, name \in FewNameArgs, func \in FewFuncArgs : Register(i, name, func)
    \/ \E i \in Insts, name \in FewNameArgs, func \in FewFuncArgs : Unregister(i, name, func)
    \/ \E i \in Insts, value \in Values, func \in FewCallArgs :
            Invoke(i, value, func, <<>>, EmptyDict)

SpecInst == Init /\ [][NextInst]_vars


-----------------------------------------------------------------------------
(* Claims about the registry                                                *)

\* d with the entry under k removed when there is one
DelIfPresent(d, k) == IF k \in DOMAIN d THEN Del(d, k) ELSE d

\* d and e agree on every key but k
SameBut(d, e, k) ==
    /\ (DOMAIN d) \ {k} = (DOMAIN e) \ {k}
    /\ \A x \in (DOMAIN d) \ {k} : d[x] = e[x]

\* C1: invoking by a name calls the function most recently registered under
\* that name and not unregistered since, and fails with KeyError when there
\* is none (never registered, or unregistered).
C1_LastRegistrationWins ==
    (last.op = "invoke" /\ ~Callable(last.func)) =>
        LET h == lastReg[last.inst]
        IN  IF last.func \in HistNames /\ Callable(h[last.func])
            THEN last.out = Returned(h[last.func], last.value, last.args, last.kw)
            ELSE last.out.kind = "KeyError"

\* C2: invoking with an invocable calls exactly that invocable with
\* (value, *args, **kwargs), whatever the registry holds, and leaves the
\* registry as it was.
C2_DirectInvocable ==
    [][(last'.op = "invoke" /\ Callable(last'.func)) =>
          /\ last'.out = Returned(last'.func, last'.value, last'.args, last'.kw)
          /\ filters' = filters]_vars

\* C2's case: an invocable that is registered nowhere was called, while the
\* registry holds another function under the invocable's declared name.
C2_Witness ==
    /\ last.op = "invoke"
    /\ last.func = "<user fn ratio>"
    /\ last.out.kind = "returned"
    /\ \A k \in DOMAIN filters[0] : filters[0][k] # "<user fn ratio>"
    /\ "ratio" \in DOMAIN filters[0]
    /\ filters[0]["ratio"] = "<fn ratio>"

\* C3 as stated: register(name, func) stores func under name; register(f)
\* and register(func=f) store f under f's declared name; register() changes
\* nothing; no call changes any other entry.
C3_RegisterAsStated ==
    [][last'.op = "register" =>
          LET n == last'.name
              f == last'.func
              d == filters[last'.inst]
              e == filters'[last'.inst]
          IN  CASE n = None /\ f = None -> e = d
                [] n # None /\ f # None -> e = Put(d, n, f)
                [] Callable(n) /\ f = None -> e = Put(d, DeclName(n), n)
                [] n = None /\ f # None -> e = Put(d, DeclName(f), f)
                [] OTHER -> \E k \in NameArgs : SameBut(d, e, k)]_vars

\* C3 amended: as stated for a non-empty name; an empty name counts as an
\* omitted one, so that register("", f) stores f under f's declared name and
\* register("") changes nothing.
C3_RegisterAmended ==
    [][last'.op = "register" =>
          LET n == last'.name
              f == last'.func
              d == filters[last'.inst]
              e == filters'[last'.inst]
          IN  CASE n \in {None, ""} /\ f = None -> e = d
                [] n \notin {None, ""} /\ f # None -> e = Put(d, n, f)
                [] Callable(n) /\ f = None -> e = Put(d, DeclName(n), n)
                [] n \in {None, ""} /\ f # None -> e = Put(d, DeclName(f), f)
                [] OTHER -> \E k \in NameArgs : SameBut(d, e, k)]_vars

\* C3's cases: register was called with an empty name and a function, which
\* is now held under its declared name and not under ""; before, a bare
\* invocable had overwritten the library's ratio.
C3_Witness ==
    /\ last.op = "register"
    /\ last.name = ""
    /\ last.func = "<user fn double>"
    /\ "" \notin DOMAIN filters[0]
    /\ "double" \in DOMAIN filters[0]
    /\ filters[0]["double"] = "<user fn double>"
    /\ filters[0]["ratio"] = "<user fn ratio>"

\* C4: unregister removes the entry under an explicit name, or under the
\* declared name of an invocable given without a name (as the first argument
\* or as func), leaves every other entry alone, and changes nothing when the
\* name is absent or both arguments are omitted.
C4_UnregisterByNameOrInvocable ==
    [][last'.op = "unregister" =>
          LET n == last'.name
              f == last'.func
              d == filters[last'.inst]
              e == filters'[last'.inst]
          IN  CASE Truthy(n) /\ ~Callable(n) -> e = DelIfPresent(d, n)
                [] Callable(n) /\ f = None -> e = DelIfPresent(d, DeclName(n))
                [] ~Truthy(n) /\ Callable(f) -> e = DelIfPresent(d, DeclName(f))
                [] ~Truthy(n) /\ f = None -> e = d
                [] OTHER -> TRUE]_vars

\* C5: a newly constructed instance holds exactly the twelve defaults under
\* their canonical names, whatever was done to other instances before, and
\* no call on one instance changes the dict of another.
C5_FreshDefaultsIsolated ==
    [][/\ last'.op = "construct" => filters'[last'.inst] = DEFAULT_FORMATTERS
       /\ \A j \in Insts \ {last'.inst} : filters'[j] = filters[j]]_vars

\* C5's case: an instance was constructed after the module-level instance had
\* been changed, and holds the twelve defaults.
C5_Witness ==
    /\ last.op = "construct"
    /\ last.inst # 0
    /\ filters[0] # DEFAULT_FORMATTERS
    /\ Cardinality(DOMAIN filters[last.inst]) = 12
    /\ filters[last.inst]["ratio"] = "<fn ratio>"

\* C10: every key of the dict is a name (a string, not None, not a function)
\* and every value stored is an invocable.
C10_NamesToInvocables ==
    \A i \in live : \A k \in DOMAIN filters[i] :
        /\ k # None
        /\ ~Callable(k)
        /\ Callable(filters[i][k])


-----------------------------------------------------------------------------
(* The transforms, called one at a time                                     *)

TfCall(fn, v, places, multiply, tieUp, out) ==
    [fn |-> fn, value |-> v, places |-> places, multiply |-> multiply,
     tieUp |-> tieUp, out |-> out]

CallDollarSigns(v) ==
    /\ tf' = TfCall("dollar_signs", v, 0, TRUE, FALSE, dollar_signs(v))
    /\ UNCHANGED <<filters, live, last, lastReg, ic>>

CallDollars(v, places, tieUp) ==
    /\ tf' = TfCall("dollars", v, places, TRUE, tieUp, dollars(v, places, tieUp))
    /\ UNCHANGED <<filters, live, last, lastReg, ic>>

CallPercentChange(v, places, multiply, tieUp) ==
    /\ tf' = TfCall("percent_change", v, places, multiply, tieUp,
                    percent_change(v, places, multiply, tieUp))
    /\ UNCHANGED <<filters, live, last, lastReg, ic>>

CallRatio(v, precision) ==
    /\ tf' = TfCall("ratio", v, precision, TRUE, FALSE, ratio(v, precision))
    /\ UNCHANGED <<filters, live, last, lastReg, ic>>

NextTf ==
    \/ \E v \in TfValues : CallDollarSigns(v)
    \/ \E v \in TfValues, places \in Places, tieUp \in BOOLEAN :
            CallDollars(v, places, tieUp)
    \/ \E v \in TfValues, places \in Places, multiply \in BOOLEAN, tieUp \in BOOLEAN :
            CallPercentChange(v, places, multiply, tieUp)
    \/ \E v \in TfValues, precision \in Places : CallRatio(v, precision)

SpecTf == Init /\ [][NextTf]_vars

-----------------------------------------------------------------------------
(* intcomma, one frame of its recursion at a time                           *)

InitIc ==
    /\ InitReg
    /\ tf = NoTf
    /\ \E k \in IcInputs :
          ic = [pc |-> "call", n |-> k, value |-> IntV(k), depth |-> 0,
                result |-> <<>>]

\* One call of intcomma: it returns, or calls itself on the new str.
IntcommaFrame ==
    /\ ic.pc = "call"
    /\ LET orig == PyStr(ic.value)
           new == IntcommaSub(orig)
       IN  IF orig = new
           THEN ic' = [ic EXCEPT !.pc = "done", !.result = new]
           ELSE ic' = [ic EXCEPT !.value = StrV(new), !.depth = @ + 1]
    /\ UNCHANGED <<filters, live, last, lastReg, tf>>

NextIc == IntcommaFrame

SpecIc == InitIc /\ [][NextIc]_vars


-----------------------------------------------------------------------------
(* Claims about the transforms                                              *)

SoftFailing == {"dollar_signs", "dollars", "percent_change", "ratio"}

\* whether the transform fn can read v as a number
Parses(fn, v) ==
    IF fn = "dollar_signs" THEN PyInt(v).kind = "ok" ELSE PyFloat(v).kind = "ok"

\* C6: dollar_signs, dollars, percent_change and ratio never raise: each
\* returns a str for every value, "N/A" for a value that is given and cannot
\* be read as a number, and for ratio the fixed-point number with the
\* supplied precision followed by ":1".
C6_SoftFailuresNeverRaise ==
    tf.fn \in SoftFailing =>
        /\ tf.out.kind = "returned"
        /\ (~Falsy(tf.value) /\ ~Parses(tf.fn, tf.value)) => tf.out.s = NA
        /\ (tf.fn = "ratio" /\ Parses(tf.fn, tf.value)) =>
              \E up \in BOOLEAN :
                  tf.out.s = FormatFixed(PyFloat(tf.value).f, tf.places, up)
                                 \o <<":", "1">>

\* C7 as stated: dollars of 0, None or the empty str returns "N/A".
C7_DollarsFalsyIsNA ==
    (tf.fn = "dollars" /\ Falsy(tf.value)) => tf.out = Ret(NA)

\* C7 amended: dollars of 0, None or the empty str returns "$" and zero
\* written with the requested decimal places ("$0.00" by default, "$0" for
\* none); "N/A" is what a str that is no number gives.
C7_DollarsFalsyIsZero ==
    (tf.fn = "dollars" /\ Falsy(tf.value)) =>
        tf.out = Ret(<<"$", "0">>
                        \o (IF tf.places > 0
                            THEN <<".">> \o [i \in 1 .. tf.places |-> "0"]
                            ELSE <<>>))

\* C7's case: dollars was applied to None with two decimal places.
C7_Witness ==
    /\ tf.fn = "dollars"
    /\ tf.value = NoneV
    /\ tf.places = 2
    /\ tf.out = Ret(<<"$", "0", ".", "0", "0">>)

\* The digits ds with a comma before every group of three counted from the
\* right: a leading group of one to three digits, then ",ddd" blocks.
Grouped(ds) ==
    LET len == Len(ds)
        g == ((len - 1) % 3) + 1
    IN  [j \in 1 .. len + (len - 1) \div 3 |->
            IF j <= g THEN ds[j]
            ELSE IF (j - g - 1) % 4 = 0 THEN ","
            ELSE ds[g + 3 * ((j - g - 1) \div 4) + ((j - g - 1) % 4)]]

\* C8: for an int n >= 0 intcomma returns the digits of n with a comma
\* before every group of three from the right, intcomma of the result is
\* the result, and the recursion ends: it never goes deeper than there are
\* commas to insert.
C8_IntcommaGroups ==
    /\ ic.pc = "done" =>
          /\ ic.result = Grouped(NatStr(ic.n))
          /\ IntcommaStr(ic.result) = ic.result
    /\ ic.pc \in {"call", "done"} =>
          ic.depth <= (Len(NatStr(ic.n)) - 1) \div 3

\* C8's case: an int of seven digits went through two recursive calls and
\* came back with two commas.
C8_Witness ==
    /\ ic.pc = "done"
    /\ ic.n = 1019001
    /\ ic.depth = 2
    /\ ic.result = <<"1", ",", "0", "1", "9", ",", "0", "0", "1">>

\* C9: percent_change writes "+" first exactly when the value, multiplied
\* by 100 unless multiply is off, is above zero; a value below zero keeps
\* its "-", zero gets no prefix; the digits are those of the unrounded
\* value's fixed-point form and "%" ends the str.
C9_PlusIffPositive ==
    (tf.fn = "percent_change" /\ PyFloat(tf.value).kind = "ok") =>
        LET f == IF tf.multiply THEN PyFloat(tf.value).f * 100
                 ELSE PyFloat(tf.value).f
            s == tf.out.s
            body == SubSeq(s, IF f > 0 THEN 2 ELSE 1, Len(s) - 1)
        IN  /\ tf.out.kind = "returned"
            /\ Len(s) >= 2
            /\ s[Len(s)] = "%"
            /\ s[1] = "+" <=> f > 0
            /\ f < 0 => s[1] = "-"
            /\ f = 0 => IsDigit(s[1])
            /\ body = FormatFixed(f, tf.places, tf.tieUp)

\* C9's case: a value above zero whose rounded digits are all zero came back
\* with its "+".
C9_Witness ==
    /\ tf.fn = "percent_change"
    /\ tf.multiply = FALSE
    /\ tf.value = Milli(5)
    /\ tf.out = Ret(<<"+", "0", ".", "0", "%">>)

=============================================================================
